---- MODULE Spec2Model ----
(***************************************************************************)
(* Model of app.py: the reply parser parse_questions, the text normaliser  *)
(* process_text and the Streamlit driver main().                           *)
(*                                                                         *)
(* A Python str is a sequence of one-character strings, so that strip,     *)
(* split, find, slicing and the two regular-expression substitutions are   *)
(* computed character by character as the interpreter computes them.       *)
(* Python's None is NoneStr where a str is expected.                       *)
(***************************************************************************)
EXTENDS Integers, Sequences, FiniteSets, TLC

VARIABLES
    \* parse_questions(questions_text): the argument and the loop's locals
    questions_text, line_no, sections, current_section, current_questions,
    returned,
    \* process_text: the argument and the results of successive applications
    text_in, results,
    \* main(): st.secrets, the file_uploader widget, st.session_state and
    \* what the last script run did
    hasKey, uploaded_file, questions, answers, feedback, run

parseVars == <<questions_text, line_no, sections, current_section,
               current_questions, returned>>
textVars == <<text_in, results>>
mainVars == <<hasKey, uploaded_file, questions, answers, feedback, run>>
vars == <<parseVars, textVars, mainVars>>

----------------------------------------------------------------------------
(* Bounds of the model *)

\* number of lines of a reply handed to parse_questions
MaxLines == 4
\* number of characters of a text handed to process_text
MaxLen == 5
\* number of successive applications of process_text
MaxApplications == 2

----------------------------------------------------------------------------
(* Python str primitives *)

NoneStr == <<"None">>

Min(S) == CHOOSE x \in S : \A y \in S : x <= y
Max(S) == CHOOSE x \in S : \A y \in S : x >= y

\* the characters str.strip() removes and the regex class \s matches
IsSpace(c) == c \in {" ", "\n", "\t", "\r", "\f"}

\* tuple('1234567890')
IsDigit(c) == c \in {"1", "2", "3", "4", "5", "6", "7", "8", "9", "0"}

\* s.strip()
Strip(s) ==
    LET keep == {i \in 1..Len(s) : ~IsSpace(s[i])}
    IN  IF keep = {} THEN <<>> ELSE SubSeq(s, Min(keep), Max(keep))

\* s.endswith(suffix)
EndsWith(s, suffix) ==
    /\ Len(s) >= Len(suffix)
    /\ SubSeq(s, Len(s) - Len(suffix) + 1, Len(s)) = suffix

\* sub in s
Contains(s, sub) ==
    \E i \in 1..(Len(s) - Len(sub) + 1) : SubSeq(s, i, i + Len(sub) - 1) = sub

\* s.find(c) for a one-character c: the 0-based index of the first c, or -1
Find(s, c) ==
    LET at == {i \in 1..Len(s) : s[i] = c}
    IN  IF at = {} THEN -1 ELSE Min(at) - 1

\* s[k:] for a 0-based k >= 0
SliceFrom(s, k) == SubSeq(s, k + 1, Len(s))

\* s.split('\n')
RECURSIVE Split(_)
Split(s) ==
    LET k == Find(s, "\n")
    IN  IF k = -1 THEN <<s>>
        ELSE <<SubSeq(s, 1, k)>> \o Split(SliceFrom(s, k + 1))

\* '\n'.join(ls)
RECURSIVE Join(_)
Join(ls) ==
    IF ls = <<>> THEN <<>>
    ELSE IF Len(ls) = 1 THEN ls[1]
    ELSE ls[1] \o <<"\n">> \o Join(Tail(ls))

----------------------------------------------------------------------------
(* parse_questions *)

\* the literal 'Questions:'
QuestionsSuffix == <<"Q", "u", "e", "s", "t", "i", "o", "n", "s", ":">>

\* line.endswith('Questions:')
IsHeaderLine(line) == EndsWith(line, QuestionsSuffix)

\* line.startswith(tuple('1234567890')) and '. ' in line
IsQuestionLine(line) ==
    /\ Len(line) >= 1
    /\ IsDigit(line[1])
    /\ Contains(line, <<".", " ">>)

KeepColon(line) == line

\* line[:-1]
RemoveColon(line) == SubSeq(line, 1, Len(line) - 1)

\* line[line.find('.')+2:]
QuestionOf(line) == SliceFrom(line, Find(line, ".") + 2)

FlushAnyQuestions(section, qs) == qs # <<>>

\* current_section and current_questions
Flushable(section, qs) ==
    /\ section # NoneStr
    /\ section # <<>>
    /\ qs # <<>>

\* d[key] = val on a dict kept as the sequence of its items in
\* insertion order: an existing key keeps its place and takes the new value
DictSet(d, key, val) ==
    IF \E i \in 1..Len(d) : d[i].key = key
    THEN [i \in 1..Len(d) |->
            IF d[i].key = key THEN [key |-> key, val |-> val] ELSE d[i]]
    ELSE Append(d, [key |-> key, val |-> val])

\* key in d
DictHas(d, key) == \E i \in 1..Len(d) : d[i].key = key

\* d[key]
DictGet(d, key) == d[CHOOSE i \in 1..Len(d) : d[i].key = key].val

\* the locals before the loop
ParseStart == [sections |-> <<>>, current_section |-> NoneStr,
               current_questions |-> <<>>]

\* one iteration of the loop on the raw line
ParseLine(st, raw) ==
    LET line == Strip(raw)
    IN  IF IsHeaderLine(line)
        THEN [sections |->
                 IF Flushable(st.current_section, st.current_questions)
                 THEN DictSet(st.sections, st.current_section,
                              st.current_questions)
                 ELSE st.sections,
              current_section |-> RemoveColon(line),
              current_questions |-> <<>>]
        ELSE IF IsQuestionLine(line)
        THEN [st EXCEPT !.current_questions = Append(@, QuestionOf(line))]
        ELSE st

\* the flush after the loop and the value returned
ParseFinish(st) ==
    IF Flushable(st.current_section, st.current_questions)
    THEN DictSet(st.sections, st.current_section, st.current_questions)
    ELSE st.sections

RECURSIVE ParseLoop(_, _)
ParseLoop(st, ls) ==
    IF ls = <<>> THEN st ELSE ParseLoop(ParseLine(st, Head(ls)), Tail(ls))

\* parse_questions(text)
ParseQuestions(text) == ParseFinish(ParseLoop(ParseStart, Split(text)))

----------------------------------------------------------------------------
(* process_text *)

\* re.sub(r'\n\s*\n', '\n\n', s): leftmost matches, \s* greedy, so a match
\* that starts at a newline runs to the last newline of the whitespace run
RECURSIVE SubBlankLines(_)
SubBlankLines(s) ==
    IF s = <<>> THEN <<>>
    ELSE IF s[1] = "\n"
    THEN LET runEnd == Max({j \in 1..Len(s) : \A i \in 2..j : IsSpace(s[i])})
             nl == {j \in 2..runEnd : s[j] = "\n"}
         IN  IF nl = {} THEN <<"\n">> \o SubBlankLines(Tail(s))
             ELSE <<"\n", "\n">> \o SubBlankLines(SliceFrom(s, Max(nl)))
    ELSE <<s[1]>> \o SubBlankLines(Tail(s))

\* a single pass of s.replace('  ', ' ') over whitespace pairs
RECURSIVE SubSpacePairs(_)
SubSpacePairs(s) ==
    IF s = <<>> THEN <<>>
    ELSE IF Len(s) >= 2 /\ IsSpace(s[1]) /\ IsSpace(s[2])
    THEN <<" ">> \o SubSpacePairs(SliceFrom(s, 2))
    ELSE <<IF IsSpace(s[1]) THEN " " ELSE s[1]>> \o SubSpacePairs(Tail(s))

\* re.sub(r'\s+', ' ', s): every maximal whitespace run becomes one space
RECURSIVE SubSpaces(_)
SubSpaces(s) ==
    IF s = <<>> THEN <<>>
    ELSE IF IsSpace(s[1])
    THEN LET runEnd == Max({j \in 1..Len(s) : \A i \in 1..j : IsSpace(s[i])})
         IN  <<" ">> \o SubSpaces(SliceFrom(s, runEnd))
    ELSE <<s[1]>> \o SubSpaces(Tail(s))

\* process_text(text)
ProcessText(text) == Strip(SubSpaces(SubBlankLines(text)))

----------------------------------------------------------------------------
(* Values of the variables a specification does not use *)

ParseIdle ==
    /\ questions_text = <<>>
    /\ line_no = 0
    /\ sections = <<>>
    /\ current_section = NoneStr
    /\ current_questions = <<>>
    /\ returned = FALSE

TextIdle ==
    /\ text_in = <<>>
    /\ results = <<>>

----------------------------------------------------------------------------
(* parse_questions run line by line on bounded replies *)

\* the lines replies are made of
LinePool == {
    <<"T", " ">> \o QuestionsSuffix,
    <<"B", " ">> \o QuestionsSuffix,
    <<"1", ".", " ", "A", "?">>,
    <<" ", "1", "2", ".", " ", "B", "?", " ">>,
    <<"1", ".", "5", ".", " ", "W", "?">>,
    <<"1", ")", "N", "o">>,
    <<>> }

Replies == {Join(ls) : ls \in UNION {[1..n -> LinePool] : n \in 0..MaxLines}}

\* questions_text.split('\n')
Lines == Split(questions_text)

ParseState == [sections |-> sections, current_section |-> current_section,
               current_questions |-> current_questions]

\* the loop body applied to the next line
ParseNext ==
    LET st == ParseLine(ParseState, Lines[line_no + 1])
    IN  /\ line_no' = line_no + 1
        /\ sections' = st.sections
        /\ current_section' = st.current_section
        /\ current_questions' = st.current_questions
        /\ UNCHANGED <<questions_text, returned, textVars, mainVars>>

\* the branch of line 19
ParseHeaderLine ==
    /\ ~returned
    /\ line_no < Len(Lines)
    /\ IsHeaderLine(Strip(Lines[line_no + 1]))
    /\ ParseNext

\* the branch of line 24
ParseQuestionLine ==
    /\ ~returned
    /\ line_no < Len(Lines)
    /\ ~IsHeaderLine(Strip(Lines[line_no + 1]))
    /\ IsQuestionLine(Strip(Lines[line_no + 1]))
    /\ ParseNext

\* a line neither branch takes
ParseIgnoredLine ==
    /\ ~returned
    /\ line_no < Len(Lines)
    /\ ~IsHeaderLine(Strip(Lines[line_no + 1]))
    /\ ~IsQuestionLine(Strip(Lines[line_no + 1]))
    /\ ParseNext

\* lines 28 to 31
ParseReturn ==
    /\ ~returned
    /\ line_no = Len(Lines)
    /\ sections' = ParseFinish(ParseState)
    /\ returned' = TRUE
    /\ UNCHANGED <<questions_text, line_no, current_section,
                   current_questions, textVars, mainVars>>

----------------------------------------------------------------------------
(* process_text applied to bounded texts *)

TextAlphabet == {"a", " ", "\n", "\t"}

Texts == UNION {[1..n -> TextAlphabet] : n \in 0..MaxLen}

\* process_text applied to the text, then to its own result
ApplyProcessText ==
    /\ Len(results) < MaxApplications
    /\ results' = Append(results,
                         ProcessText(IF results = <<>> THEN text_in
                                     ELSE results[Len(results)]))
    /\ UNCHANGED <<text_in, parseVars, mainVars>>

----------------------------------------------------------------------------
(* main(): the values it handles *)

\* uploaded_file is None
NoFile == [type |-> "None", extract |-> <<>>]

PdfType == "application/pdf"
DocxType ==
    "application/vnd.openxmlformats-officedocument.wordprocessingml.document"
OtherType == "text/plain"

\* an extraction routine raising instead of returning a str
Raises == <<"raise">>

\* what an extraction routine can do on a file: raise, or return no text,
\* whitespace only, or the text of the document as that library renders it
Outcomes(rendered) == {Raises, <<>>, <<" ", "\n">>, rendered}

PdfFiles ==
    {[type |-> PdfType,
      extract |-> [pdfplumber |-> a, PyPDF2 |-> b, pdfminer |-> c,
                   docx2txt |-> Raises]] :
        a \in Outcomes(<<"a", "\n", "\n", "b", "\n">>),
        b \in Outcomes(<<"a", " ", "b">>),
        c \in Outcomes(<<"a", "\n", "b", "\n", "\f">>)}

DocxFiles ==
    {[type |-> DocxType,
      extract |-> [pdfplumber |-> Raises, PyPDF2 |-> Raises,
                   pdfminer |-> Raises, docx2txt |-> d]] :
        d \in Outcomes(<<"a", "\n", "\n", "b">>)}

OtherFiles ==
    {[type |-> OtherType,
      extract |-> [pdfplumber |-> Raises, PyPDF2 |-> Raises,
                   pdfminer |-> Raises, docx2txt |-> Raises]]}

Files == PdfFiles \cup DocxFiles \cup OtherFiles

\* st.session_state.questions: None, or the dict parse_questions returned
NoQuestions == [none |-> TRUE, items |-> <<>>]
SomeQuestions(d) == [none |-> FALSE, items |-> d]

\* the truth value of st.session_state.questions
Truthy(q) == ~q.none /\ q.items # <<>>

\* the truth value of an optional str
StrTruthy(s) == s # NoneStr /\ s # <<>>

\* what the user can type into a text_area
AnswerTexts == {<<>>, <<" ">>, <<"x">>}

\* no text_area was edited before this run
NoEdit == [key |-> NoneStr, i |-> 0, val |-> <<>>]

\* response.text of the question prompt, or None when the call raises: no
\* text, a reply without header, one section, and two sections
GenReplies ==
    {NoneStr,
     <<>>,
     Join(<<<<"1", ".", " ", "A", "?">>, <<"O", "k", ".">>>>),
     Join(<<<<"T", " ">> \o QuestionsSuffix, <<"1", ".", " ", "A", "?">>>>),
     Join(<<<<"T", " ">> \o QuestionsSuffix,
            <<"1", ".", " ", "A", "?">>,
            <<"1", "2", ".", " ", "B", "?", " ">>,
            <<>>,
            <<"B", " ">> \o QuestionsSuffix,
            <<"1", ".", " ", "C", "?">>,
            <<>>>>)}

\* response.text of the feedback prompt, or None when the call raises
FeedbackReplies == {NoneStr, <<>>, <<"o", "k">>}

KeyMsg == "Please set the GEMINI_API_KEY in your Streamlit secrets."
UnsupportedMsg == "Unsupported file format"
ProcessingMsg == "Error processing file"
GeminiMsg == "Error with Gemini API"

----------------------------------------------------------------------------
(* main(): the script *)

BranchDocxByDefault(type) == IF type = PdfType THEN "pdf" ELSE "docx"

\* the if / elif / else on uploaded_file.type of lines 173 to 184
FileBranch(type) ==
    IF type = PdfType THEN "pdf"
    ELSE IF type = DocxType THEN "docx"
    ELSE "unsupported"

NeedsFallbackIfEmpty(text) == text = <<>>

\* not text.strip()
NeedsFallback(text) == Strip(text) = <<>>

Extracted(invoked, text) ==
    [status |-> "ok", invoked |-> invoked, text |-> text]
Raised(invoked) ==
    [status |-> "raised", invoked |-> invoked, text |-> NoneStr]

\* lines 174 to 178: an exception of a routine leaves the try block
ReadPdf(file) ==
    LET r1 == file.extract.pdfplumber
        r2 == file.extract.PyPDF2
        r3 == file.extract.pdfminer
    IN  IF r1 = Raises THEN Raised(<<"pdfplumber">>)
        ELSE IF ~NeedsFallback(r1) THEN Extracted(<<"pdfplumber">>, r1)
        ELSE IF r2 = Raises THEN Raised(<<"pdfplumber", "PyPDF2">>)
        ELSE IF ~NeedsFallback(r2)
             THEN Extracted(<<"pdfplumber", "PyPDF2">>, r2)
        ELSE IF r3 = Raises
             THEN Raised(<<"pdfplumber", "PyPDF2", "pdfminer">>)
        ELSE Extracted(<<"pdfplumber", "PyPDF2", "pdfminer">>, r3)

\* line 181
ReadDocx(file) ==
    IF file.extract.docx2txt = Raises THEN Raised(<<"docx2txt">>)
    ELSE Extracted(<<"docx2txt">>, file.extract.docx2txt)

\* lines 173 to 184
Extract(file) ==
    LET branch == FileBranch(file.type)
    IN  IF branch = "pdf" THEN ReadPdf(file)
        ELSE IF branch = "docx" THEN ReadDocx(file)
        ELSE [status |-> "unsupported", invoked |-> <<>>, text |-> NoneStr]

AlwaysGenerate(q) == TRUE

\* not st.session_state.questions
ShouldGenerate(q) == ~Truthy(q)

FiveBlankAnswers(qs) == [i \in 1..5 |-> <<>>]

\* [""] * len(questions)
InitAnswers(qs) == [i \in 1..Len(qs) |-> <<>>]

\* what st.text_area returns: the text typed into it before this run, or
\* else its value argument
Widget(edit, key, i, value) ==
    IF edit.key = key /\ edit.i = i THEN edit.val ELSE value

\* lines 207 to 222: acc is the answers so far, answers_provided and whether
\* answers[section][i] raised IndexError, which ends the loop
RECURSIVE AnswerLoop(_, _, _)
AnswerLoop(items, acc, edit) ==
    IF items = <<>> \/ acc.raised THEN acc
    ELSE LET e == Head(items)
             a0 == IF DictHas(acc.answers, e.key) THEN acc.answers
                   ELSE DictSet(acc.answers, e.key, InitAnswers(e.val))
             old == DictGet(a0, e.key)
             n == Min({Len(old), Len(e.val)})
             new == [i \in 1..Len(old) |->
                        IF i <= n THEN Widget(edit, e.key, i, old[i])
                        ELSE old[i]]
         IN  AnswerLoop(Tail(items),
                        [answers |-> DictSet(a0, e.key, new),
                         provided |-> /\ acc.provided
                                      /\ \A i \in 1..n : Strip(new[i]) # <<>>,
                         raised |-> Len(old) < Len(e.val)],
                        edit)

\* what a run that renders nothing but the uploader did
IdleRun == [uploader |-> TRUE, errors |-> <<>>, invoked |-> <<>>,
            text |-> NoneStr, generated |-> FALSE, shown |-> FALSE,
            button |-> FALSE, feedback_asked |-> FALSE]

\* the run st.stop() ends at line 152
StoppedRun == [IdleRun EXCEPT !.uploader = FALSE, !.errors = <<KeyMsg>>]

\* lines 187 to 280 on the extracted text
Pipeline(ex, edit, clicked, genReply, fbReply) ==
    LET processed_text == ProcessText(ex.text)
        gen == ShouldGenerate(questions)
        q1 == IF gen /\ StrTruthy(genReply)
              THEN SomeQuestions(ParseQuestions(genReply))
              ELSE questions
        shown == Truthy(q1)
        loop == IF shown
                THEN AnswerLoop(q1.items,
                                [answers |-> answers, provided |-> TRUE,
                                 raised |-> FALSE], edit)
                ELSE [answers |-> answers, provided |-> FALSE,
                      raised |-> FALSE]
        button == shown /\ ~loop.raised /\ loop.provided
        asked == button /\ clicked
        \* round(len(processed_text) / len(processed_text.split()), 2)
        divides_by_zero == processed_text = <<>>
    IN  [questions |-> q1,
         answers |-> loop.answers,
         feedback |-> IF asked /\ StrTruthy(fbReply) THEN fbReply
                      ELSE feedback,
         run |-> [uploader |-> TRUE,
                  errors |->
                      (IF gen /\ genReply = NoneStr THEN <<GeminiMsg>>
                       ELSE <<>>)
                      \o (IF asked /\ fbReply = NoneStr THEN <<GeminiMsg>>
                          ELSE <<>>)
                      \o (IF loop.raised \/ divides_by_zero
                          THEN <<ProcessingMsg>> ELSE <<>>),
                  invoked |-> ex.invoked,
                  text |-> ex.text,
                  generated |-> gen,
                  shown |-> shown,
                  button |-> button,
                  feedback_asked |-> asked]]

\* one run of main() from top to bottom
RunScript(file, edit, clicked, genReply, fbReply) ==
    LET unchanged(r) == [questions |-> questions, answers |-> answers,
                         feedback |-> feedback, run |-> r]
        ex == Extract(file)
    IN  IF ~hasKey THEN unchanged(StoppedRun)
        ELSE IF file = NoFile THEN unchanged(IdleRun)
        ELSE IF ex.status = "unsupported"
             THEN unchanged([IdleRun EXCEPT !.errors = <<UnsupportedMsg>>])
        ELSE IF ex.status = "raised"
             THEN unchanged([IdleRun EXCEPT !.invoked = ex.invoked,
                                            !.errors = <<ProcessingMsg>>])
        ELSE Pipeline(ex, edit, clicked, genReply, fbReply)

\* the run reaches line 195 and finds no questions in the session
CallsModel(file) ==
    /\ hasKey
    /\ file # NoFile
    /\ Extract(file).status = "ok"
    /\ ShouldGenerate(questions)

\* the script reruns after a user event; a reply of the model is drawn for
\* each call the run makes
Rerun(file, edit, clicked) ==
    \E genReply \in IF CallsModel(file) THEN GenReplies ELSE {NoneStr},
       fbReply \in IF clicked THEN FeedbackReplies ELSE {NoneStr} :
        \E out \in {RunScript(file, edit, clicked, genReply, fbReply)} :
            /\ uploaded_file' = file
            /\ questions' = out.questions
            /\ answers' = out.answers
            /\ feedback' = out.feedback
            /\ run' = out.run
            /\ UNCHANGED <<hasKey, parseVars, textVars>>

----------------------------------------------------------------------------
(* main(): the user's events, each followed by a rerun of the script *)

\* a file is put into the uploader
UploadFile ==
    /\ run.uploader
    /\ \E file \in Files : Rerun(file, NoEdit, FALSE)

\* the file is taken out of the uploader
RemoveFile ==
    /\ run.uploader
    /\ uploaded_file # NoFile
    /\ Rerun(NoFile, NoEdit, FALSE)

\* an answer is typed into one of the text areas shown
EditAnswer ==
    /\ run.shown
    /\ \E e \in 1..Len(questions.items) :
         \E i \in 1..Len(questions.items[e].val), val \in AnswerTexts :
            Rerun(uploaded_file,
                  [key |-> questions.items[e].key, i |-> i, val |-> val],
                  FALSE)

\* the feedback button is clicked
ClickFeedback ==
    /\ run.button
    /\ Rerun(uploaded_file, NoEdit, TRUE)

MainIdle ==
    /\ hasKey = TRUE
    /\ uploaded_file = NoFile
    /\ questions = NoQuestions
    /\ answers = <<>>
    /\ feedback = NoneStr
    /\ run = IdleRun

----------------------------------------------------------------------------
(* The specifications *)

\* the session after its first run, which has no file
Init ==
    /\ hasKey \in BOOLEAN
    /\ uploaded_file = NoFile
    /\ questions = NoQuestions
    /\ answers = <<>>
    /\ feedback = NoneStr
    /\ run = IF hasKey THEN IdleRun ELSE StoppedRun
    /\ ParseIdle
    /\ TextIdle

Next ==
    \/ UploadFile
    \/ RemoveFile
    \/ EditAnswer
    \/ ClickFeedback

Spec == Init /\ [][Next]_vars

InitParse ==
    /\ questions_text \in Replies
    /\ line_no = 0
    /\ sections = <<>>
    /\ current_section = NoneStr
    /\ current_questions = <<>>
    /\ returned = FALSE
    /\ TextIdle
    /\ MainIdle

NextParse ==
    \/ ParseHeaderLine
    \/ ParseQuestionLine
    \/ ParseIgnoredLine
    \/ ParseReturn

SpecParse == InitParse /\ [][NextParse]_vars

InitText ==
    /\ text_in \in Texts
    /\ results = <<>>
    /\ ParseIdle
    /\ MainIdle

NextText == ApplyProcessText

SpecText == InitText /\ [][NextText]_vars

----------------------------------------------------------------------------
(* Properties of parse_questions, under SpecParse *)

\* the lines of the reply, trimmed, and those of them that are not blank
TrimmedLines == [i \in 1..Len(Lines) |-> Strip(Lines[i])]
NonBlank == SelectSeq(TrimmedLines, LAMBDA l : l # <<>>)

\* a header line: it ends in "Questions:"
HeaderShape(l) == EndsWith(l, QuestionsSuffix)

LeadingDigits(l) ==
    Cardinality({k \in 1..Len(l) : \A i \in 1..k : IsDigit(l[i])})

\* a numbered line "<n>. <text>" that is no header
NumberedShape(l) ==
    /\ ~HeaderShape(l)
    /\ LeadingDigits(l) >= 1
    /\ Len(l) >= LeadingDigits(l) + 3
    /\ l[LeadingDigits(l) + 1] = "."
    /\ l[LeadingDigits(l) + 2] = " "

\* the <text> of a numbered line
NumberedText(l) == SubSeq(l, LeadingDigits(l) + 3, Len(l))

HeaderAt == {i \in 1..Len(NonBlank) : HeaderShape(NonBlank[i])}

\* every section is a header followed by numbered lines
WellFormedReply ==
    /\ NonBlank # <<>>
    /\ HeaderShape(NonBlank[1])
    /\ \A i \in 1..Len(NonBlank) :
          /\ HeaderShape(NonBlank[i]) \/ NumberedShape(NonBlank[i])
          /\ HeaderShape(NonBlank[i]) =>
                i < Len(NonBlank) /\ NumberedShape(NonBlank[i + 1])

DistinctHeaders ==
    \A i, j \in HeaderAt : i # j => NonBlank[i] # NonBlank[j]

\* the header without its trailing colon
HeaderKey(i) == SubSeq(NonBlank[i], 1, Len(NonBlank[i]) - 1)

\* the question texts of the section the header at i opens, in order
SectionTexts(i) ==
    LET last == Min({j \in HeaderAt : j > i} \cup {Len(NonBlank) + 1}) - 1
    IN  [j \in 1..(last - i) |-> NumberedText(NonBlank[i + j])]

\* one key per header, holding that section's texts, and no other key
MappingAsClaimed ==
    /\ \A i \in HeaderAt :
          /\ Cardinality({e \in 1..Len(sections) :
                             sections[e].key = HeaderKey(i)}) = 1
          /\ \A e \in 1..Len(sections) :
                sections[e].key = HeaderKey(i) =>
                    sections[e].val = SectionTexts(i)
    /\ \A e \in 1..Len(sections) :
          \E i \in HeaderAt : sections[e].key = HeaderKey(i)

\* C1 as stated: on every well-formed reply parse_questions returns one key
\* per header, the header without its colon, holding that section's question
\* texts in their order.
C1_AsStated == returned /\ WellFormedReply => MappingAsClaimed

\* C1 amended: on every well-formed reply whose headers are pairwise
\* distinct, parse_questions returns exactly one key per header, the header
\* without its colon, holding that section's question texts in their order.
C1_DistinctHeaders ==
    returned /\ WellFormedReply /\ DistinctHeaders =>
        /\ MappingAsClaimed
        /\ Len(sections) = Cardinality(HeaderAt)

C1_Witness ==
    /\ returned
    /\ WellFormedReply
    /\ DistinctHeaders
    /\ Cardinality(HeaderAt) = 2
    /\ Len(sections) = 2
    /\ MappingAsClaimed

\* the text after the first ". " of a line that has one
AfterFirstDotSpace(l) ==
    LET at == Min({i \in 1..(Len(l) - 1) : SubSeq(l, i, i + 1) = <<".", " ">>})
    IN  SubSeq(l, at + 2, Len(l))

\* C2: for a trimmed line that starts with a digit, contains ". " and does
\* not end in "Questions:", the question recorded is the text after the first
\* ". " of the line.
C2_TextAfterFirstDotSpace ==
    /\ ~returned
    /\ line_no >= 1
    /\ ~HeaderShape(TrimmedLines[line_no])
    /\ IsDigit(Head(TrimmedLines[line_no] \o <<"x">>))
    /\ Contains(TrimmedLines[line_no], <<".", " ">>)
    => /\ current_questions # <<>>
       /\ current_questions[Len(current_questions)] =
             AfterFirstDotSpace(TrimmedLines[line_no])

\* the lines of the reply from its first header on
FromFirstHeader ==
    LET hs == {i \in 1..Len(Lines) : HeaderShape(TrimmedLines[i])}
    IN  IF hs = {} THEN <<>> ELSE SubSeq(Lines, Min(hs), Len(Lines))

\* C8: as long as no line read ends in "Questions:" nothing is recorded, so
\* a reply without header yields the empty mapping; and the numbered lines
\* before the first header leave no trace in the mapping returned.
C8_NoHeaderNoSection ==
    /\ (\A i \in 1..line_no : ~HeaderShape(TrimmedLines[i])) => sections = <<>>
    /\ returned => sections = ParseQuestions(Join(FromFirstHeader))

C8_Witness ==
    /\ returned
    /\ \A i \in 1..Len(Lines) : ~HeaderShape(TrimmedLines[i])
    /\ Len(current_questions) >= 2
    /\ sections = <<>>

----------------------------------------------------------------------------
(* Properties of process_text, under SpecText *)

\* two non-blank lines of the text have only blank lines between them
BlankLineBetweenText(s) ==
    \E i, j \in 1..Len(s) :
        /\ i < j
        /\ ~IsSpace(s[i])
        /\ ~IsSpace(s[j])
        /\ \A k \in (i + 1)..(j - 1) : IsSpace(s[k])
        /\ Cardinality({k \in (i + 1)..(j - 1) : s[k] = "\n"}) >= 2

\* C3: two non-blank lines separated by blank lines in the input are
\* separated by exactly one blank line in the output of process_text.
C3_KeepsOneBlankLine ==
    results # <<>> /\ BlankLineBetweenText(text_in) =>
        Contains(results[1], <<"\n", "\n">>)

\* C9: process_text applied to its own result returns that result.
C9_Idempotent == Len(results) >= 2 => results[2] = results[1]

C9_Witness ==
    /\ Len(results) >= 2
    /\ results[2] = results[1]
    /\ results[1] # text_in
    /\ Contains(results[1], <<" ">>)
    /\ Contains(text_in, <<"\n", "\t">>)

----------------------------------------------------------------------------
(* Properties of main(), under Spec *)

\* an extraction routine returned text that is empty or whitespace only
Blank(r) == r # Raises /\ \A i \in 1..Len(r) : IsSpace(r[i])

\* an extraction routine returned text that is not
NonBlankText(r) == r # Raises /\ \E i \in 1..Len(r) : ~IsSpace(r[i])

Invoked(method) == \E i \in 1..Len(run.invoked) : run.invoked[i] = method

PdfUploaded == hasKey /\ uploaded_file.type = PdfType

\* C4: when the first routine returns blank text and the second text that
\* is not blank, the second's text is the one normalised and the third
\* routine is not invoked; the third is invoked only after two blank texts.
C4_SecondMethodSurfaces ==
    PdfUploaded =>
        /\ (Blank(uploaded_file.extract.pdfplumber)
            /\ NonBlankText(uploaded_file.extract.PyPDF2)) =>
                /\ run.text = uploaded_file.extract.PyPDF2
                /\ ~Invoked("pdfminer")
        /\ Invoked("pdfminer") =>
                /\ Blank(uploaded_file.extract.pdfplumber)
                /\ Blank(uploaded_file.extract.PyPDF2)

C4_Witness ==
    /\ PdfUploaded
    /\ uploaded_file.extract.pdfplumber = <<" ", "\n">>
    /\ NonBlankText(uploaded_file.extract.PyPDF2)
    /\ NonBlankText(uploaded_file.extract.pdfminer)
    /\ run.text = uploaded_file.extract.PyPDF2
    /\ run.invoked = <<"pdfplumber", "PyPDF2">>

\* C5: an exception of an extraction routine is handled as no text: the
\* next routine of the chain is tried, and the generic error is reported
\* only when the last routine has been tried.
C5_ExceptionFallsThrough ==
    PdfUploaded =>
        /\ uploaded_file.extract.pdfplumber = Raises => Invoked("PyPDF2")
        /\ (\E i \in 1..Len(run.errors) : run.errors[i] = ProcessingMsg)
           /\ run.text = NoneStr => Invoked("pdfminer")

\* C6: a run on a file whose type is neither PDF nor DOCX reports
\* "Unsupported file format", invokes no extraction routine, normalises no
\* text, calls the model for nothing and leaves questions, answers and
\* feedback as they were.
C6_UnsupportedHalts ==
    [][(hasKey /\ uploaded_file'.type \notin {PdfType, DocxType, NoFile.type})
       => /\ run'.errors = <<UnsupportedMsg>>
          /\ run'.invoked = <<>>
          /\ run'.text = NoneStr
          /\ ~run'.generated
          /\ ~run'.feedback_asked
          /\ questions' = questions
          /\ answers' = answers
          /\ feedback' = feedback]_vars

C6_Witness ==
    /\ uploaded_file.type = OtherType
    /\ run.errors = <<UnsupportedMsg>>
    /\ Truthy(questions)
    /\ feedback # NoneStr

\* C7: every section of the session's questions has a list of answers of
\* the length of its list of questions.
C7_AnswersMatchQuestions ==
    \A e \in 1..Len(questions.items) :
        /\ DictHas(answers, questions.items[e].key)
        /\ Len(DictGet(answers, questions.items[e].key)) =
              Len(questions.items[e].val)

C7_Witness ==
    /\ Len(questions.items) = 2
    /\ ~run.generated
    /\ run.shown
    /\ uploaded_file.type = DocxType
    /\ \E e \in 1..Len(answers) : \E i \in 1..Len(answers[e].val) :
          answers[e].val[i] = <<"x">>

\* C10: a run asks the model for questions only when the session has none,
\* a run that gets as far with none asks, and questions once there are
\* changed by no run.
C10_GenerationSticky ==
    [][/\ run'.generated => ~Truthy(questions)
       /\ Truthy(questions) => questions' = questions
       /\ (~Truthy(questions) /\ run'.text # NoneStr) => run'.generated]_vars

C10_Witness ==
    /\ Truthy(questions)
    /\ run.text # NoneStr
    /\ ~run.generated
    /\ uploaded_file.type = PdfType

====
